---- MODULE Spec2Model ----
(***************************************************************************)
(* Capsule endoscopy labeler (src/app.py): the frame registry              *)
(* reconciliation (sync_unlabeled), the label merge (merge_temp_labels),   *)
(* the filter view (apply_filters), the navigation cursor (navigation),    *)
(* the edit buffer (labeling_ui) and the commit path of main(), which      *)
(* Streamlit re-executes from the top on every user interaction.           *)
(*                                                                         *)
(* A DataFrame is a sequence of rows; a row is a function from column      *)
(* name to cell value.  A dict is a sequence of <<key, value>> pairs in    *)
(* insertion order.  Every row carries a frame identifier (rows with an    *)
(* empty frame cell are not modelled).                                     *)
(***************************************************************************)
EXTENDS Integers, Sequences, FiniteSets, TLC

\* ------------------------------------------------------------ bounds ----
\* longest folder listing
MaxFiles == 2

\* runs of the script in one session
MaxRuns == 3

\* ------------------------------------------------------------ config ----
LABEL_COLUMNS == <<"Junk", "LowQuality", "Normal", "Stricture", "Ulcer">>

base_cols == <<"frame", "class", "movie", "pillcam", "label_date">>

\* an empty text cell (None / NaN in a text column)
None == "<NA>"

\* an empty cell of a label column (None / NaN in a numeric column)
NaN == -1

\* time.strftime('%Y-%m-%d %H:%M:%S'): a non-empty text
strftime == "2025-01-01 00:00:00"

Range(s) == {s[i] : i \in 1..Len(s)}

LabelSet == Range(LABEL_COLUMNS)

Columns == Range(base_cols) \cup LabelSet

Frames == {"f1.png", "f2.png"}

\* ------------------------------------------------------ dict helpers ----
\* k in d
HasKey(d, k) == \E i \in 1..Len(d) : d[i][1] = k

\* d.get(k, default)
DictGet(d, k, default) ==
    IF HasKey(d, k)
    THEN d[CHOOSE i \in 1..Len(d) : d[i][1] = k][2]
    ELSE default

\* d[k] = v : an existing key keeps its position, a new key goes last
DictSet(d, k, v) ==
    IF HasKey(d, k)
    THEN [i \in 1..Len(d) |-> IF d[i][1] = k THEN <<k, v>> ELSE d[i]]
    ELSE Append(d, <<k, v>>)

DictKeys(d) == {d[i][1] : i \in 1..Len(d)}

\* ",".join(names)
RECURSIVE Join(_)
Join(names) ==
    IF names = <<>> THEN ""
    ELSE IF Len(names) = 1 THEN names[1]
    ELSE names[1] \o "," \o Join(Tail(names))

\* ------------------------------------------------- DataFrame helpers ----
\* df['frame'].dropna().unique() as a set
FrameSet(df) == {df[i]["frame"] : i \in 1..Len(df)}

\* a row with every required column empty (ensure_columns / concat fill)
EmptyRow == [c \in Columns |-> IF c \in LabelSet THEN NaN ELSE None]

\* DataFrame.to_excel followed by read_excel: NaN and "" both come back
\* as an empty cell
ExcelCell(c, v) == IF c \notin LabelSet /\ v = "" THEN None ELSE v

ExcelRoundTrip(df) ==
    [i \in 1..Len(df) |-> [c \in Columns |-> ExcelCell(c, df[i][c])]]

\* ---------------------------------------------------- sync_unlabeled ----
\* fault: only the labeled workbook is consulted
RECURSIVE new_records_labeled_only(_, _, _)
new_records_labeled_only(all_frame_files, existing_frames, unlabeled_frames) ==
    IF all_frame_files = <<>> THEN <<>>
    ELSE LET file_name == Head(all_frame_files)[2]
             rest == new_records_labeled_only(Tail(all_frame_files),
                                              existing_frames, unlabeled_frames)
         IN  IF file_name \notin existing_frames
             THEN <<[EmptyRow EXCEPT !["frame"] = file_name]>> \o rest
             ELSE rest

RECURSIVE new_records(_, _, _)
new_records(all_frame_files, existing_frames, unlabeled_frames) ==
    IF all_frame_files = <<>> THEN <<>>
    ELSE LET file_name == Head(all_frame_files)[2]
             rest == new_records(Tail(all_frame_files), existing_frames,
                                 unlabeled_frames)
         IN  IF file_name \notin existing_frames
                /\ file_name \notin unlabeled_frames
             THEN <<[EmptyRow EXCEPT !["frame"] = file_name]>> \o rest
             ELSE rest

\* fault: the new records replace the unlabeled rows instead of following
\* them
sync_unlabeled_replacing(df_fr, df_un, all_frame_files) ==
    IF new_records(all_frame_files, FrameSet(df_fr), FrameSet(df_un)) = <<>>
    THEN df_un
    ELSE new_records(all_frame_files, FrameSet(df_fr), FrameSet(df_un))

sync_unlabeled(df_fr, df_un, all_frame_files) ==
    df_un \o new_records(all_frame_files, FrameSet(df_fr), FrameSet(df_un))

\* ------------------------------------------------- merge_temp_labels ----
\* assigned = [k for k, v in label_dict.items() if v == 1]
RECURSIVE assigned(_)
assigned(label_dict) ==
    IF label_dict = <<>> THEN <<>>
    ELSE IF Head(label_dict)[2] = 1
         THEN <<Head(label_dict)[1]>> \o assigned(Tail(label_dict))
         ELSE assigned(Tail(label_dict))

\* the class text built from the assigned labels (both branches)
class_of(label_dict) ==
    LET a == assigned(label_dict)
    IN  IF Len(a) = 1 THEN a[1]
        ELSE IF Len(a) > 1 THEN Join(a)
        ELSE ""

\* the label columns of a row set from label_dict.get(lab_col, 0)
WithLabels(row, label_dict) ==
    [c \in Columns |-> IF c \in LabelSet THEN DictGet(label_dict, c, 0)
                       ELSE row[c]]

\* fault: the edited row is rebuilt and moved to the end
update_row_relocated(df_fr, frame_name, label_dict) ==
    Append(SelectSeq(df_fr, LAMBDA r : r["frame"] # frame_name),
           [WithLabels(EmptyRow, label_dict)
              EXCEPT !["frame"] = frame_name,
                     !["movie"] = "",
                     !["pillcam"] = "",
                     !["class"] = class_of(label_dict),
                     !["label_date"] = strftime])

\* fault: an edit that leaves no flag set takes the row out of the store
update_row_demoting(df_fr, frame_name, label_dict) ==
    IF assigned(label_dict) = <<>>
    THEN SelectSeq(df_fr, LAMBDA r : r["frame"] # frame_name)
    ELSE LET idx == CHOOSE i \in 1..Len(df_fr) :
                        /\ df_fr[i]["frame"] = frame_name
                        /\ \A j \in 1..(i - 1) : df_fr[j]["frame"] # frame_name
             row == [WithLabels(df_fr[idx], label_dict)
                       EXCEPT !["class"] = class_of(label_dict),
                              !["label_date"] = strftime]
         IN  [df_fr EXCEPT ![idx] = row]

\* the branch for a frame already in df_frames: the first matching row
update_row(df_fr, frame_name, label_dict) ==
    LET idx == CHOOSE i \in 1..Len(df_fr) :
                   /\ df_fr[i]["frame"] = frame_name
                   /\ \A j \in 1..(i - 1) : df_fr[j]["frame"] # frame_name
        row == [WithLabels(df_fr[idx], label_dict)
                  EXCEPT !["class"] = class_of(label_dict),
                         !["label_date"] = strftime]
    IN  [df_fr EXCEPT ![idx] = row]

\* fault: the promoted row takes no flag from the edit
new_row_unflagged(frame_name, label_dict) ==
    [EmptyRow EXCEPT !["frame"] = frame_name,
                     !["movie"] = "",
                     !["pillcam"] = "",
                     !["label_date"] = strftime,
                     !["class"] = IF assigned(label_dict) # <<>>
                                  THEN Join(assigned(label_dict)) ELSE ""]

\* the branch for a frame not in df_frames
new_row(frame_name, label_dict) ==
    [WithLabels(EmptyRow, label_dict)
       EXCEPT !["frame"] = frame_name,
              !["movie"] = "",
              !["pillcam"] = "",
              !["label_date"] = strftime,
              !["class"] = IF assigned(label_dict) # <<>>
                           THEN Join(assigned(label_dict)) ELSE ""]

\* fault: the promoted frame stays in the unlabeled workbook
drop_frame_kept(df_un, frame_name) == df_un

drop_frame(df_un, frame_name) ==
    SelectSeq(df_un, LAMBDA r : r["frame"] # frame_name)

\* fault: an update in place is not counted
RECURSIVE merge_loop_uncounted(_, _, _, _)
merge_loop_uncounted(items, df_fr, df_un, count) ==
    IF items = <<>>
    THEN [frames |-> df_fr, unlabeled |-> df_un, changed_count |-> count]
    ELSE LET frame_name == Head(items)[1]
             label_dict == Head(items)[2]
         IN  IF frame_name \in FrameSet(df_fr)
             THEN merge_loop_uncounted(Tail(items),
                             update_row(df_fr, frame_name, label_dict),
                             df_un, count)
             ELSE merge_loop_uncounted(Tail(items),
                             Append(df_fr, new_row(frame_name, label_dict)),
                             drop_frame(df_un, frame_name), count + 1)

\* fault: an edit with no flag set is dropped instead of promoted
RECURSIVE merge_loop_skip_unflagged(_, _, _, _)
merge_loop_skip_unflagged(items, df_fr, df_un, count) ==
    IF items = <<>>
    THEN [frames |-> df_fr, unlabeled |-> df_un, changed_count |-> count]
    ELSE LET frame_name == Head(items)[1]
             label_dict == Head(items)[2]
         IN  IF frame_name \in FrameSet(df_fr)
             THEN merge_loop_skip_unflagged(Tail(items),
                             update_row(df_fr, frame_name, label_dict),
                             df_un, count + 1)
             ELSE IF assigned(label_dict) = <<>>
             THEN merge_loop_skip_unflagged(Tail(items), df_fr, df_un, count)
             ELSE merge_loop_skip_unflagged(Tail(items),
                             Append(df_fr, new_row(frame_name, label_dict)),
                             drop_frame(df_un, frame_name), count + 1)

\* fault: an edit of a labeled frame also removes its unlabeled row
RECURSIVE merge_loop_repairing(_, _, _, _)
merge_loop_repairing(items, df_fr, df_un, count) ==
    IF items = <<>>
    THEN [frames |-> df_fr, unlabeled |-> df_un, changed_count |-> count]
    ELSE LET frame_name == Head(items)[1]
             label_dict == Head(items)[2]
         IN  IF frame_name \in FrameSet(df_fr)
             THEN merge_loop_repairing(Tail(items),
                             update_row(df_fr, frame_name, label_dict),
                             drop_frame(df_un, frame_name), count + 1)
             ELSE merge_loop_repairing(Tail(items),
                             Append(df_fr, new_row(frame_name, label_dict)),
                             drop_frame(df_un, frame_name), count + 1)

\* the loop over st.session_state["temp_labels"].items()
RECURSIVE merge_loop(_, _, _, _)
merge_loop(items, df_fr, df_un, count) ==
    IF items = <<>>
    THEN [frames |-> df_fr, unlabeled |-> df_un, changed_count |-> count]
    ELSE LET frame_name == Head(items)[1]
             label_dict == Head(items)[2]
         IN  IF frame_name \in FrameSet(df_fr)
             THEN merge_loop(Tail(items),
                             update_row(df_fr, frame_name, label_dict),
                             df_un, count + 1)
             ELSE merge_loop(Tail(items),
                             Append(df_fr, new_row(frame_name, label_dict)),
                             drop_frame(df_un, frame_name), count + 1)

\* fault: the buffer is not cleared after the loop
merge_temp_labels_keeping(df_fr, df_un, buffer) ==
    IF buffer = <<>>
    THEN [frames |-> df_fr, unlabeled |-> df_un, changed_count |-> 0,
          temp_labels |-> buffer]
    ELSE LET m == merge_loop(buffer, df_fr, df_un, 0)
         IN  [frames |-> m.frames, unlabeled |-> m.unlabeled,
              changed_count |-> m.changed_count, temp_labels |-> buffer]

\* returns the two stores, the count and the buffer left in the session
merge_temp_labels(df_fr, df_un, buffer) ==
    IF buffer = <<>>
    THEN [frames |-> df_fr, unlabeled |-> df_un, changed_count |-> 0,
          temp_labels |-> buffer]
    ELSE LET m == merge_loop(buffer, df_fr, df_un, 0)
         IN  [frames |-> m.frames, unlabeled |-> m.unlabeled,
              changed_count |-> m.changed_count, temp_labels |-> <<>>]

\* ----------------------------------------------------- apply_filters ----
Tag(df, flag) ==
    [i \in 1..Len(df) |-> [c \in Columns \cup {"is_labeled"} |->
                             IF c = "is_labeled" THEN flag ELSE df[i][c]]]

\* fault: a row passes when it has any one of the selected labels
narrow_labels_any(df_show, label_sel) ==
    IF label_sel = <<>> THEN df_show
    ELSE SelectSeq(df_show,
                   LAMBDA r : \E i \in 1..Len(label_sel) : r[label_sel[i]] = 1)

RECURSIVE narrow_labels(_, _)
narrow_labels(df_show, label_sel) ==
    IF label_sel = <<>> THEN df_show
    ELSE narrow_labels(SelectSeq(df_show,
                                 LAMBDA r : r[Head(label_sel)] = 1),
                       Tail(label_sel))

base_set(df_fr, df_un, status) ==
    IF status = "All" THEN Tag(df_fr, TRUE) \o Tag(df_un, FALSE)
    ELSE IF status = "Labeled" THEN Tag(df_fr, TRUE)
    ELSE Tag(df_un, FALSE)

apply_filters(df_fr, df_un, status, movie_filter, pillcam_filter, label_sel) ==
    LET s0 == base_set(df_fr, df_un, status)
        s1 == IF movie_filter # "All"
              THEN SelectSeq(s0, LAMBDA r : r["movie"] = movie_filter)
              ELSE s0
        s2 == IF pillcam_filter # "All"
              THEN SelectSeq(s1, LAMBDA r : r["pillcam"] = pillcam_filter)
              ELSE s1
    IN  narrow_labels(s2, label_sel)

\* ------------------------------------------------------- navigation ----
NoIndex == -1

NoRow == <<>>

Max(a, b) == IF a >= b THEN a ELSE b

Min(a, b) == IF a <= b THEN a ELSE b

\* st.session_state.current_index after the two buttons (0-based)
next_index(cursor, n, pressed) ==
    LET start == IF cursor = NoIndex THEN 0 ELSE cursor
    IN  IF pressed = "Previous" THEN Max(start - 1, 0)
        ELSE IF pressed = "Next" THEN Min(start + 1, n - 1)
        ELSE start

\* ------------------------------------------------------ labeling_ui ----
\* fault: a blank flag cell is read as set
seed_dict_truthy(r) ==
    [i \in 1..Len(LABEL_COLUMNS) |->
        <<LABEL_COLUMNS[i], IF r[LABEL_COLUMNS[i]] = 0 THEN 0 ELSE 1>>]

\* the fallback to the row: val = 1 if val == 1 else 0
seed_dict(r) ==
    [i \in 1..Len(LABEL_COLUMNS) |->
        <<LABEL_COLUMNS[i], IF r[LABEL_COLUMNS[i]] = 1 THEN 1 ELSE 0>>]

current_dict(buffer, r) ==
    LET got == DictGet(buffer, r["frame"], <<>>)
    IN  IF got = <<>> THEN seed_dict(r) ELSE got

\* fault: the checkboxes are read last to first
updated_dict_reversed(ticked) ==
    [i \in 1..Len(LABEL_COLUMNS) |->
        <<LABEL_COLUMNS[Len(LABEL_COLUMNS) + 1 - i],
          IF LABEL_COLUMNS[Len(LABEL_COLUMNS) + 1 - i] \in ticked
          THEN 1 ELSE 0>>]

\* updated_dict from the ticked checkboxes
updated_dict(ticked) ==
    [i \in 1..Len(LABEL_COLUMNS) |->
        <<LABEL_COLUMNS[i], IF LABEL_COLUMNS[i] \in ticked THEN 1 ELSE 0>>]

Ticked(d) == {d[i][1] : i \in {j \in 1..Len(d) : d[j][2] = 1}}

\* what the annotator may tick besides leaving the boxes as offered
CheckChoices == {{}, {"Junk", "Stricture"}}

\* ------------------------------------------------------------ inputs ----
SeqsUpTo(S, n) == UNION {[1..k -> S] : k \in 0..n}

\* rows a labeled workbook may hold when the session starts: one written
\* by an earlier commit, one typed in by hand with blank cells
RowA(f) ==
    [EmptyRow EXCEPT !["frame"] = f, !["class"] = "Junk,Stricture",
                     !["movie"] = "m1", !["pillcam"] = "p1",
                     !["label_date"] = strftime,
                     !["Junk"] = 1, !["LowQuality"] = 0, !["Normal"] = 0,
                     !["Stricture"] = 1, !["Ulcer"] = 0]

RowB(f) ==
    [EmptyRow EXCEPT !["frame"] = f, !["class"] = "Ulcer", !["Ulcer"] = 1]

\* a row as sync_unlabeled leaves it
Blank(f) == [EmptyRow EXCEPT !["frame"] = f]

InitialLabeled ==
    {<<>>, <<RowA("f1.png")>>, <<RowA("f1.png"), RowB("f2.png")>>}

InitialUnlabeled ==
    {<<>>} \cup {<<Blank(f)>> : f \in Frames}

\* list_frames_in_folder: (file_id, file_name) pairs, names may repeat
FileLists ==
    {[i \in 1..Len(s) |-> <<i, s[i]>>] : s \in SeqsUpTo(Frames, MaxFiles)}

FilterChoices ==
    {"All", "Labeled", "Unlabeled"}

\* st.sidebar.multiselect over LABEL_COLUMNS: distinct labels as selected
LabelSelections ==
    {<<>>} \cup {<<a>> : a \in LabelSet}
           \cup {w \in LabelSet \X LabelSet : w[1] # w[2]}

\* the values offered by a facet selectbox
facet_options(df_fr, df_un, col) ==
    {"All"} \cup ({r[col] : r \in Range(df_fr \o df_un)} \ {None})

Buttons == {"none", "Previous", "Next", "Update Excel"}

\* ------------------------------------------------------------- state ----
VARIABLES
    driveFrames,        \* the labeled workbook on Drive, as read_excel reads it
    driveUnlabeled,     \* the unlabeled workbook on Drive
    unlabeled_file_id,  \* whether an unlabeled workbook is configured
    temp_labels,        \* st.session_state["temp_labels"]
    current_index,      \* st.session_state.current_index
    runs,               \* runs of the script so far
    button,             \* the button whose click started this run
    pc,                 \* position of the run inside main()
    df_frames, df_unlabeled, df_display, row, changed_count,
    uploads,            \* workbooks written by this run, in order
    error               \* the exception that ended this run, if any

vars == <<driveFrames, driveUnlabeled, unlabeled_file_id, temp_labels,
          current_index, runs, button, pc, df_frames, df_unlabeled, df_display,
          row, changed_count, uploads, error>>

drive == <<driveFrames, driveUnlabeled, unlabeled_file_id>>

session == <<temp_labels, current_index, runs>>

stores == <<df_frames, df_unlabeled>>

Init ==
    /\ driveFrames \in InitialLabeled
    /\ unlabeled_file_id \in BOOLEAN
    /\ driveUnlabeled \in (IF unlabeled_file_id THEN InitialUnlabeled ELSE {<<>>})
    /\ temp_labels = <<>>
    /\ current_index = NoIndex
    /\ runs = 0
    /\ button = "none"
    /\ pc = "idle"
    /\ df_frames = <<>>
    /\ df_unlabeled = <<>>
    /\ df_display = <<>>
    /\ row = NoRow
    /\ changed_count = 0
    /\ uploads = <<>>
    /\ error = ""

\* the page load, and then every widget interaction, runs the script,
\* which downloads both workbooks
Rerun ==
    /\ pc = "idle"
    /\ runs < MaxRuns
    /\ runs' = runs + 1
    /\ button' \in (IF runs = 0 THEN {"none"} ELSE Buttons)
    /\ df_frames' = driveFrames
    /\ df_unlabeled' = (IF unlabeled_file_id THEN driveUnlabeled ELSE <<>>)
    /\ df_display' = <<>>
    /\ row' = NoRow
    /\ changed_count' = 0
    /\ uploads' = <<>>
    /\ error' = ""
    /\ pc' = "sync"
    /\ UNCHANGED <<drive, temp_labels, current_index>>

\* list the folder and reconcile
SyncStep ==
    /\ pc = "sync"
    /\ \E all_files \in FileLists :
          df_unlabeled' = sync_unlabeled(df_frames, df_unlabeled, all_files)
    /\ pc' = "filter"
    /\ UNCHANGED <<drive, session, button, df_frames, df_display, row,
                   changed_count, uploads, error>>

\* the sidebar widgets' values, then the filtered view
ApplyFilters ==
    /\ pc = "filter"
    /\ df_display' \in
          {apply_filters(df_frames, df_unlabeled, w[1], w[2], w[3], w[4]) :
             w \in FilterChoices
                   \X facet_options(df_frames, df_unlabeled, "movie")
                   \X facet_options(df_frames, df_unlabeled, "pillcam")
                   \X LabelSelections}
    /\ pc' = "navigate"
    /\ UNCHANGED <<drive, session, button, stores, row, changed_count,
                   uploads, error>>

navigation ==
    /\ pc = "navigate"
    /\ IF Len(df_display) = 0
       THEN /\ row' = NoRow
            /\ pc' = "commit"
            /\ UNCHANGED <<current_index, error>>
       ELSE LET idx == next_index(current_index, Len(df_display), button)
            IN  /\ current_index' = idx
                /\ IF idx < Len(df_display)
                   THEN /\ row' = df_display[idx + 1]
                        /\ pc' = "label"
                        /\ UNCHANGED error
                   ELSE /\ row' = NoRow
                        /\ error' = "IndexError"
                        /\ pc' = "idle"
    /\ UNCHANGED <<drive, temp_labels, runs, button, stores, df_display,
                   changed_count, uploads>>

\* fault: the entry is stored only when a checkbox was toggled
labeling_ui_lazy ==
    /\ pc = "label"
    /\ \E ticked \in CheckChoices \cup {Ticked(current_dict(temp_labels, row))} :
          temp_labels' =
             IF ticked = Ticked(current_dict(temp_labels, row))
             THEN temp_labels
             ELSE DictSet(temp_labels, row["frame"], updated_dict(ticked))
    /\ pc' = "commit"
    /\ UNCHANGED <<drive, current_index, runs, button, stores, df_display,
                   row, changed_count, uploads, error>>

\* the checkboxes of the displayed row; the entry is stored on every run
labeling_ui ==
    /\ pc = "label"
    /\ \E ticked \in CheckChoices \cup {Ticked(current_dict(temp_labels, row))} :
          temp_labels' = DictSet(temp_labels, row["frame"], updated_dict(ticked))
    /\ pc' = "commit"
    /\ UNCHANGED <<drive, current_index, runs, button, stores, df_display,
                   row, changed_count, uploads, error>>

\* fault: the upload is not skipped on a zero count
needs_upload_always(count) == count >= 0

\* whether main() goes on to upload after the merge
needs_upload(count) == count > 0

UpdateExcel ==
    /\ pc = "commit"
    /\ IF button = "Update Excel"
       THEN LET m == merge_temp_labels(df_frames, df_unlabeled, temp_labels)
            IN  /\ df_frames' = m.frames
                /\ df_unlabeled' = m.unlabeled
                /\ changed_count' = m.changed_count
                /\ temp_labels' = m.temp_labels
                /\ pc' = IF needs_upload(m.changed_count)
                         THEN "upload_frames" ELSE "finish"
       ELSE /\ pc' = "finish"
            /\ UNCHANGED <<stores, changed_count, temp_labels>>
    /\ UNCHANGED <<drive, current_index, runs, button, df_display, row,
                   uploads, error>>

\* fault: the first write of the commit is the unlabeled workbook
UploadFrames_unlabeled_first ==
    /\ pc = "upload_frames"
    /\ \/ /\ driveUnlabeled' = (IF unlabeled_file_id
                                THEN ExcelRoundTrip(df_unlabeled)
                                ELSE driveUnlabeled)
          /\ uploads' = Append(uploads, "unlabeled")
          /\ pc' = "upload_unlabeled"
          /\ UNCHANGED error
       \/ /\ error' = "UploadError"
          /\ pc' = "idle"
          /\ UNCHANGED <<driveUnlabeled, uploads>>
    /\ UNCHANGED <<driveFrames, unlabeled_file_id, session, button,
                   stores, df_display, row, changed_count>>

\* upload_excel_to_drive(df_frames): the request may fail
UploadFrames ==
    /\ pc = "upload_frames"
    /\ \/ /\ driveFrames' = ExcelRoundTrip(df_frames)
          /\ uploads' = Append(uploads, "frames")
          /\ pc' = "upload_unlabeled"
          /\ UNCHANGED error
       \/ /\ error' = "UploadError"
          /\ pc' = "idle"
          /\ UNCHANGED <<driveFrames, uploads>>
    /\ UNCHANGED <<driveUnlabeled, unlabeled_file_id, session, button,
                   stores, df_display, row, changed_count>>

UploadUnlabeled ==
    /\ pc = "upload_unlabeled"
    /\ IF unlabeled_file_id
       THEN \/ /\ driveUnlabeled' = ExcelRoundTrip(df_unlabeled)
               /\ uploads' = Append(uploads, "unlabeled")
               /\ pc' = "finish"
               /\ UNCHANGED error
            \/ /\ error' = "UploadError"
               /\ pc' = "idle"
               /\ UNCHANGED <<driveUnlabeled, uploads>>
       ELSE /\ pc' = "finish"
            /\ UNCHANGED <<driveUnlabeled, uploads, error>>
    /\ UNCHANGED <<driveFrames, unlabeled_file_id, session, button, stores,
                   df_display, row, changed_count>>

\* the rest of the script only draws; the run's locals die with it
Finish ==
    /\ pc = "finish"
    /\ pc' = "idle"
    /\ df_frames' = <<>>
    /\ df_unlabeled' = <<>>
    /\ df_display' = <<>>
    /\ row' = NoRow
    /\ changed_count' = 0
    /\ uploads' = <<>>
    /\ button' = "none"
    /\ UNCHANGED <<drive, session, error>>

Next ==
    \/ Rerun
    \/ SyncStep
    \/ ApplyFilters
    \/ navigation
    \/ labeling_ui
    \/ UpdateExcel
    \/ UploadFrames
    \/ UploadUnlabeled
    \/ Finish

Spec == Init /\ [][Next]_vars

TypeOK ==
    /\ pc \in {"idle", "sync", "filter", "navigate", "label", "commit",
               "upload_frames", "upload_unlabeled", "finish"}
    /\ current_index \in {NoIndex} \cup Nat
    /\ runs \in 0..MaxRuns
    /\ changed_count \in Nat
    /\ error \in {"", "IndexError", "UploadError"}

\* ============================================================ claims ====
Disjoint(df_fr, df_un) == FrameSet(df_fr) \cap FrameSet(df_un) = {}

\* the rows of df that hold frame f
RowsOf(df, f) == SelectSeq(df, LAMBDA r : r["frame"] = f)

\* no frame has two rows in the two workbooks together
UniqueRows(df_fr, df_un) ==
    \A f \in Frames : Len(RowsOf(df_fr \o df_un, f)) <= 1

Merging == pc = "commit" /\ button = "Update Excel"

\* C1: reconcile and merge keep the two stores disjoint: a step of either
\* that starts with no frame in both stores ends with no frame in both.
C1_DisjointPreserved ==
    [][(pc \in {"sync", "commit"} /\ Disjoint(df_frames, df_unlabeled))
         => Disjoint(df_frames', df_unlabeled')]_vars

\* a merge has promoted a frame out of a still non-empty unlabeled store
C1_Witness ==
    /\ pc = "upload_frames"
    /\ Disjoint(driveFrames, driveUnlabeled)
    /\ Len(df_frames) > Len(driveFrames)
    /\ df_unlabeled # <<>>
    /\ Disjoint(df_frames, df_unlabeled)

\* C2: a reconcile pass over stores in which every frame has one row leaves
\* every frame with at most one row, whatever the folder listing repeats.
C2_ReconcileAddsNoDuplicate ==
    [][(pc = "sync" /\ UniqueRows(df_frames, df_unlabeled))
         => UniqueRows(df_frames', df_unlabeled')]_vars

\* C3: reconciling the result of a reconcile pass again, with the same
\* listing, changes nothing.
C3_ReconcileIdempotent ==
    [][pc = "sync" =>
         \A d \in FileLists :
            df_unlabeled' = sync_unlabeled(df_frames, df_unlabeled, d)
               => sync_unlabeled(df_frames', df_unlabeled', d) = df_unlabeled']_vars

\* a pass that appended rows has run
C3_Witness ==
    /\ pc = "filter"
    /\ Len(df_unlabeled) > Len(driveUnlabeled)
    /\ df_frames # <<>>

\* C4: after a failed save every edit that the commit merged is still in
\* the Edit Buffer.
C4_BufferKeptOnFailedSave ==
    error = "UploadError" => Len(temp_labels) = changed_count

\* C5: once navigation has run over a non-empty filtered sequence the
\* cursor lies within it.
C5_CursorInRange ==
    (pc \notin {"sync", "filter", "navigate"} /\ Len(df_display) > 0)
       => (0 <= current_index /\ current_index <= Len(df_display) - 1)

\* C6: an edit with a flag set, for a frame that is only in the unlabeled
\* store, leaves the frame out of the unlabeled store and in the labeled
\* store with the edited flags and a non-empty label_date.
C6_MergePromotes ==
    [][Merging =>
         \A i \in 1..Len(temp_labels) :
            LET f == temp_labels[i][1]
                flags == temp_labels[i][2]
            IN  (/\ f \notin FrameSet(df_frames)
                 /\ f \in FrameSet(df_unlabeled)
                 /\ \E k \in 1..Len(flags) : flags[k][2] = 1)
                => /\ f \notin FrameSet(df_unlabeled')
                   /\ Len(RowsOf(df_frames', f)) = 1
                   /\ \A k \in 1..Len(flags) :
                         RowsOf(df_frames', f)[1][flags[k][1]] = flags[k][2]
                   /\ RowsOf(df_frames', f)[1]["label_date"] \notin {"", None}]_vars

\* a flagged frame that was loaded from the unlabeled workbook is promoted
C6_Witness ==
    /\ pc = "upload_frames"
    /\ \E f \in Frames :
          /\ f \in FrameSet(driveUnlabeled) \ FrameSet(driveFrames)
          /\ f \in FrameSet(df_frames) \ FrameSet(df_unlabeled)
          /\ RowsOf(df_frames, f)[1]["Junk"] = 1

\* C7: a commit with an empty Edit Buffer counts 0, leaves both stores as
\* they were and goes on without writing either workbook.
C7_EmptyCommit ==
    [][(Merging /\ temp_labels = <<>>)
         => /\ changed_count' = 0
            /\ df_frames' = df_frames
            /\ df_unlabeled' = df_unlabeled
            /\ pc' = "finish"
            /\ uploads' = <<>>
            /\ driveFrames' = driveFrames
            /\ driveUnlabeled' = driveUnlabeled]_vars

\* a commit has run with nothing displayed and nothing buffered
C7_Witness ==
    /\ pc = "finish"
    /\ button = "Update Excel"
    /\ row = NoRow
    /\ changed_count = 0
    /\ uploads = <<>>
    /\ df_frames # <<>>

\* the labels of a row that are set, in vocabulary order
FlagsSet(r) == SelectSeq(LABEL_COLUMNS, LAMBDA lab : r[lab] = 1)

\* class as the data model derives it from the flag columns
DerivedClass(r) ==
    LET on == FlagsSet(r)
    IN  IF on = <<>> THEN ""
        ELSE IF Len(on) = 1 THEN on[1]
        ELSE Join(on)

\* C8: every row a merge writes has the class its own flag columns derive.
C8_ClassDerived ==
    [][Merging =>
         \A i \in 1..Len(temp_labels) :
            LET written == RowsOf(df_frames', temp_labels[i][1])[1]
            IN  written["class"] = DerivedClass(written)]_vars

\* a merge has written a row with two labels and a row with none
C8_Witness ==
    /\ pc = "upload_frames"
    /\ changed_count = 2
    /\ \E i, j \in 1..Len(df_frames) :
          /\ df_frames[i]["class"] = "Junk,Stricture"
          /\ df_frames[i]["movie"] = ""
          /\ df_frames[j]["class"] = ""
          /\ df_frames[j]["label_date"] = strftime

\* the base set of the filter view: the status, then the two facets
BaseRows(status, movie_filter, pillcam_filter) ==
    SelectSeq(base_set(df_frames, df_unlabeled, status),
              LAMBDA r : /\ movie_filter # "All" => r["movie"] = movie_filter
                         /\ pillcam_filter # "All" => r["pillcam"] = pillcam_filter)

\* C9: with two required labels the view is the rows of the base set that
\* have both, and every one of them is in the view for the first alone.
C9_FilterConjunctive ==
    pc = "filter" =>
       \A status \in FilterChoices,
          movie_filter \in facet_options(df_frames, df_unlabeled, "movie"),
          pillcam_filter \in facet_options(df_frames, df_unlabeled, "pillcam"),
          a \in LabelSet, b \in LabelSet :
          a # b =>
             LET both == apply_filters(df_frames, df_unlabeled, status,
                                       movie_filter, pillcam_filter, <<a, b>>)
                 one == apply_filters(df_frames, df_unlabeled, status,
                                      movie_filter, pillcam_filter, <<a>>)
             IN  /\ both = SelectSeq(BaseRows(status, movie_filter, pillcam_filter),
                                     LAMBDA r : r[a] = 1 /\ r[b] = 1)
                 /\ both = SelectSeq(one, LAMBDA r : r[b] = 1)
                 /\ Range(both) \subseteq Range(one)

\* the view for Junk and Stricture holds a row and leaves a row out that the
\* view for one label would show
C9_Witness ==
    /\ pc = "navigate"
    /\ df_display # <<>>
    /\ df_display = apply_filters(df_frames, df_unlabeled, "All", "All", "All",
                                  <<"Junk", "Stricture">>)
    /\ \E r \in Range(df_frames) : r["Ulcer"] = 1

\* C10: the count a merge returns is the number of frames in the Edit
\* Buffer; with an empty labeled store and one unlabeled row per buffered
\* frame the merge leaves as many labeled rows and no unlabeled row.
C10_CountIsBufferSize ==
    [][Merging =>
         /\ changed_count' = Cardinality(DictKeys(temp_labels))
         /\ (/\ df_frames = <<>>
             /\ FrameSet(df_unlabeled) = DictKeys(temp_labels)
             /\ Len(df_unlabeled) = Len(temp_labels))
            => /\ Len(df_frames') = Len(temp_labels)
               /\ df_unlabeled' = <<>>
               /\ changed_count' = Len(temp_labels)]_vars

\* two reconciled frames were buffered and merged from empty workbooks
C10_Witness ==
    /\ pc = "upload_frames"
    /\ driveFrames = <<>>
    /\ driveUnlabeled = <<>>
    /\ changed_count = 2
    /\ Len(df_frames) = 2
    /\ df_unlabeled = <<>>


\* the position of the first row of df that holds frame f
FirstRow(df, f) ==
    CHOOSE i \in 1..Len(df) :
       /\ df[i]["frame"] = f
       /\ \A j \in 1..(i - 1) : df[j]["frame"] # f

AllZero(r) == \A lab \in LabelSet : r[lab] = 0

\* C11: an edit with every flag 0, for a frame that is not in the labeled
\* store, still promotes the frame: one labeled row with class "" and every
\* flag 0, no unlabeled row, and the merge counts it.
C11_UnflaggedPromoted ==
    [][Merging =>
         /\ changed_count' = Len(temp_labels)
         /\ \A i \in 1..Len(temp_labels) :
               LET f == temp_labels[i][1]
                   flags == temp_labels[i][2]
               IN  (/\ f \notin FrameSet(df_frames)
                    /\ \A k \in 1..Len(flags) : flags[k][2] = 0)
                   => /\ Len(RowsOf(df_frames', f)) = 1
                      /\ RowsOf(df_frames', f)[1]["class"] = ""
                      /\ AllZero(RowsOf(df_frames', f)[1])
                      /\ f \notin FrameSet(df_unlabeled')]_vars

\* a frame that was in the unlabeled workbook is promoted with no flag set
C11_Witness ==
    /\ pc = "upload_frames"
    /\ \E f \in Frames :
          /\ f \in FrameSet(driveUnlabeled) \ FrameSet(driveFrames)
          /\ f \in FrameSet(df_frames) \ FrameSet(df_unlabeled)
          /\ RowsOf(df_frames, f)[1]["class"] = ""
          /\ AllZero(RowsOf(df_frames, f)[1])

\* C12: an edit for a frame that has a labeled row changes that row where
\* it stands: its frame, movie and pillcam stay, every labeled row that is
\* not the first row of a buffered frame stays, and when every buffered
\* frame has a labeled row the row count and the unlabeled store stay too.
C12_UpdateInPlace ==
    [][Merging =>
         /\ \A k \in 1..Len(df_frames) :
               /\ df_frames'[k]["frame"] = df_frames[k]["frame"]
               /\ df_frames'[k]["movie"] = df_frames[k]["movie"]
               /\ df_frames'[k]["pillcam"] = df_frames[k]["pillcam"]
               /\ (\A i \in 1..Len(temp_labels) :
                      k # FirstRow(df_frames, df_frames[k]["frame"])
                      \/ temp_labels[i][1] # df_frames[k]["frame"])
                  => df_frames'[k] = df_frames[k]
         /\ DictKeys(temp_labels) \subseteq FrameSet(df_frames)
            => /\ Len(df_frames') = Len(df_frames)
               /\ df_unlabeled' = df_unlabeled]_vars

\* a merge has rewritten the flags of a labeled row that carries metadata,
\* next to a second labeled row and an unlabeled row it left alone
C12_Witness ==
    /\ pc = "upload_frames"
    /\ changed_count = 1
    /\ Len(df_frames) = 2
    /\ Len(driveFrames) = 2
    /\ df_frames[1]["movie"] = "m1"
    /\ df_frames[1]["class"] = ""
    /\ df_frames[2] = driveFrames[2]
    /\ df_unlabeled # <<>>


\* one blank row per listed frame that is not known, in the order the
\* listing first names it
RECURSIVE OneRowPerNewFrame(_, _)
OneRowPerNewFrame(files, known) ==
    IF files = <<>> THEN <<>>
    ELSE IF Head(files)[2] \in known
         THEN OneRowPerNewFrame(Tail(files), known)
         ELSE <<Blank(Head(files)[2])>>
              \o OneRowPerNewFrame(Tail(files), known \cup {Head(files)[2]})

\* C13: reconcile leaves the labeled store alone and returns the unlabeled
\* store followed by one blank row per listed frame that is in neither
\* store, in listing order (nothing for an empty listing).
C13_ReconcileAppendsOnePerFrame ==
    [][pc = "sync" =>
         /\ df_frames' = df_frames
         /\ \E d \in FileLists :
               df_unlabeled' =
                  df_unlabeled
                  \o OneRowPerNewFrame(d, FrameSet(df_frames)
                                          \cup FrameSet(df_unlabeled))]_vars

AllFrames(df_fr, df_un) == FrameSet(df_fr) \cup FrameSet(df_un)

\* C14: reconcile and merge lose no frame: a frame that is in either store
\* before the step is in one of them after it, and a frame leaves the
\* unlabeled store only in a step that leaves it in the labeled store.
C14_NoFrameLost ==
    [][(pc \in {"sync", "commit"}) =>
         /\ AllFrames(df_frames, df_unlabeled)
               \subseteq AllFrames(df_frames', df_unlabeled')
         /\ \A f \in (FrameSet(df_unlabeled) \ FrameSet(df_unlabeled')) :
               /\ Merging
               /\ f \notin FrameSet(df_frames)
               /\ f \in FrameSet(df_frames')]_vars

\* a merge has moved one frame and kept another where it was, after a
\* reconcile pass that added a row behind a loaded one
C14_Witness ==
    /\ pc = "upload_frames"
    /\ driveUnlabeled # <<>>
    /\ Len(df_frames) > Len(driveFrames)
    /\ FrameSet(driveUnlabeled) \subseteq FrameSet(df_frames)
    /\ df_unlabeled # <<>>


\* ---------------------------------------------------------------- C15 ----
\* a dict that gives every label of the vocabulary, in order, a 0 or a 1
FullFlagSet(d) ==
    /\ Len(d) = Len(LABEL_COLUMNS)
    /\ \A i \in 1..Len(d) : d[i][1] = LABEL_COLUMNS[i] /\ d[i][2] \in {0, 1}

\* C15: the flag set offered for the displayed frame is its buffer entry
\* if there is one, otherwise a full set in which a flag is 1 exactly when
\* the row's cell is 1 (blank and 0 cells give 0); once the frame has been
\* displayed the buffer holds a full 0/1 flag set for it.
C15_OfferedAndStored ==
    /\ (pc = "label") =>
          LET offered == current_dict(temp_labels, row)
          IN  IF HasKey(temp_labels, row["frame"])
              THEN \E i \in 1..Len(temp_labels) :
                      /\ temp_labels[i][1] = row["frame"]
                      /\ offered = temp_labels[i][2]
              ELSE /\ FullFlagSet(offered)
                   /\ \A i \in 1..Len(offered) :
                          offered[i][2] = 1 <=> row[LABEL_COLUMNS[i]] = 1
    /\ (pc = "commit" /\ row # NoRow) =>
          /\ HasKey(temp_labels, row["frame"])
          /\ \A i \in 1..Len(temp_labels) : FullFlagSet(temp_labels[i][2])

\* a hand-typed row with blank flag cells was displayed without a buffer
\* entry and the offered boxes were left as they were
C15_Witness ==
    /\ pc = "commit"
    /\ row # NoRow
    /\ \E lab \in LabelSet : row[lab] = NaN
    /\ DictGet(temp_labels, row["frame"], <<>>) = updated_dict({"Ulcer"})


\* ---------------------------------------------------------------- C16 ----
\* C16: a merge with a non-empty buffer leaves the buffer empty, and
\* merging again straight away counts 0 and returns both stores as the
\* first merge left them.
C16_SecondMergeIsNoOp ==
    [][(Merging /\ temp_labels # <<>>) =>
         /\ temp_labels' = <<>>
         /\ LET again == merge_temp_labels(df_frames', df_unlabeled',
                                           temp_labels')
            IN  /\ again.changed_count = 0
                /\ again.frames = df_frames'
                /\ again.unlabeled = df_unlabeled'
                /\ again.temp_labels = <<>>]_vars

\* a merge that changed a store has emptied the buffer
C16_Witness ==
    /\ pc = "upload_frames"
    /\ temp_labels = <<>>
    /\ changed_count >= 1
    /\ df_frames # driveFrames


\* ---------------------------------------------------------------- C17 ----
\* the frames this commit moved into the labeled store
Promoted == FrameSet(df_frames) \ FrameSet(driveFrames)

\* the first write of a commit has gone through
LabeledWritten == pc = "upload_frames" /\ pc' = "upload_unlabeled"

\* C17 as stated: between the two writes of a commit every frame the
\* commit promoted is in both persisted stores.
C17_PromotedInBothBetweenWrites ==
    [][LabeledWritten =>
         \A f \in Promoted :
            /\ f \in FrameSet(driveFrames')
            /\ f \in FrameSet(driveUnlabeled')]_vars

\* C17 amended: the labeled workbook is written before the unlabeled one;
\* between the two writes a promoted frame is in the persisted labeled
\* store, and in the persisted unlabeled store exactly when it was
\* persisted there before the commit; no step of the program takes a
\* frame out of both persisted stores.
C17_LabeledPersistedFirst ==
    [][/\ AllFrames(driveFrames, driveUnlabeled)
            \subseteq AllFrames(driveFrames', driveUnlabeled')
       /\ (uploads' # uploads /\ uploads' # <<>>)
            => uploads' \in {<<"frames">>, <<"frames", "unlabeled">>}
       /\ LabeledWritten =>
            \A f \in Promoted :
               /\ f \in FrameSet(driveFrames')
               /\ f \in FrameSet(driveUnlabeled')
                     <=> f \in FrameSet(driveUnlabeled)]_vars

\* the commit stopped between its two writes: a promoted frame is in both
\* persisted stores
C17_Witness ==
    /\ pc = "idle"
    /\ error = "UploadError"
    /\ uploads = <<"frames">>
    /\ \E f \in Frames :
          /\ f \in FrameSet(driveFrames) \cap FrameSet(driveUnlabeled)
          /\ f \notin FrameSet(df_unlabeled)


\* ---------------------------------------------------------------- C18 ----
\* C18: a commit in a run that displayed a frame counts at least one
\* change and goes on to upload the labeled store, whether or not a box
\* was toggled; a commit counts zero changes only when the filtered
\* sequence is empty, nothing was displayed and the buffer is empty.
C18_DisplayedFrameIsCommitted ==
    [][Merging =>
         /\ (row # NoRow) => (changed_count' >= 1 /\ pc' = "upload_frames")
         /\ (changed_count' = 0) =>
               /\ df_display = <<>>
               /\ row = NoRow
               /\ temp_labels = <<>>
               /\ pc' = "finish"]_vars

\* a labeled frame was displayed and committed with its flags as they
\* were: the commit counted it and is about to upload
C18_Witness ==
    /\ pc = "upload_frames"
    /\ changed_count = 1
    /\ row # NoRow
    /\ row["frame"] \in FrameSet(driveFrames)
    /\ \A lab \in LabelSet :
          /\ row[lab] \in {0, 1}
          /\ df_frames[FirstRow(df_frames, row["frame"])][lab] = row[lab]


\* ---------------------------------------------------------------- C19 ----
\* C19: promotion is one-way.  Reconcile and merge keep every frame of
\* the labeled store in it and add none of them to the unlabeled store; a
\* merge that sets all flags of a labeled frame to 0 leaves its row in
\* place with class "".  The persisted labeled store never loses a frame
\* and the persisted unlabeled store never gains one of its frames.
C19_PromotionOneWay ==
    [][/\ (pc \in {"sync", "commit"}) =>
            \A f \in FrameSet(df_frames) :
               /\ f \in FrameSet(df_frames')
               /\ f \notin FrameSet(df_unlabeled)
                     => f \notin FrameSet(df_unlabeled')
               /\ (/\ Merging
                   /\ HasKey(temp_labels, f)
                   /\ assigned(DictGet(temp_labels, f, <<>>)) = <<>>)
                     => /\ df_frames'[FirstRow(df_frames, f)]["frame"] = f
                        /\ df_frames'[FirstRow(df_frames, f)]["class"] = ""
       /\ \A f \in FrameSet(driveFrames) :
            /\ f \in FrameSet(driveFrames')
            /\ f \notin FrameSet(driveUnlabeled)
                  => f \notin FrameSet(driveUnlabeled')]_vars

\* a frame of the persisted labeled store had all its flags set to 0 by
\* the merge and is still a labeled row, with class "", and not unlabeled
C19_Witness ==
    /\ pc = "upload_frames"
    /\ \E f \in FrameSet(driveFrames) :
          /\ driveFrames[FirstRow(driveFrames, f)]["class"] # ""
          /\ f \in FrameSet(df_frames)
          /\ df_frames[FirstRow(df_frames, f)]["class"] = ""
          /\ AllZero(df_frames[FirstRow(df_frames, f)])
          /\ f \notin FrameSet(df_unlabeled)


\* ---------------------------------------------------------------- C20 ----
\* C20: a frame that is in both stores is never repaired.  Reconcile and
\* merge leave it in both, with its unlabeled rows as they were, and a
\* commit that writes both workbooks writes it into both.
C20_BothStoresNeverRepaired ==
    [][/\ (pc \in {"sync", "commit"}) =>
            \A f \in FrameSet(df_frames) \cap FrameSet(df_unlabeled) :
               /\ f \in FrameSet(df_frames')
               /\ RowsOf(df_unlabeled', f) = RowsOf(df_unlabeled, f)
       /\ (pc = "upload_unlabeled" /\ pc' = "finish" /\ unlabeled_file_id) =>
            \A f \in FrameSet(df_frames) \cap FrameSet(df_unlabeled) :
               f \in FrameSet(driveFrames') \cap FrameSet(driveUnlabeled')]_vars

\* an edit of a frame held by both stores was merged and both workbooks
\* were written: the frame is still in both
C20_Witness ==
    /\ pc = "finish"
    /\ uploads = <<"frames", "unlabeled">>
    /\ \E f \in FrameSet(driveFrames) \cap FrameSet(driveUnlabeled) :
          /\ AllZero(driveFrames[FirstRow(driveFrames, f)])
          /\ f \in FrameSet(df_frames) \cap FrameSet(df_unlabeled)

====
